---- MODULE Spec2Model ----
(***************************************************************************)
(* Model of `flux export source git` (cmd/flux/export_source_git.go).      *)
(*                                                                         *)
(* One run of exportSourceGitCmdRun is a walk of pc from "start" to        *)
(* "done".  The command line (exportArgs.all, exportSourceWithCred, args,  *)
(* rootArgs.namespace) and the cluster contents are chosen in Init.  The   *)
(* cluster API is the environment: a call answers from the cluster         *)
(* contents, or fails (not found, timeout).                                *)
(*                                                                         *)
(* A document of `out` is the object handed to yaml.Marshal and printed:   *)
(* a field the code does not populate holds its Go zero value, which is    *)
(* what "absent from the document" means here.  yaml.Marshal cannot fail   *)
(* on these typed objects, so its error branches (lines 124-126, 159-161)  *)
(* are not reachable and have no action.                                   *)
(***************************************************************************)
EXTENDS Integers, Sequences, FiniteSets, TLC

\* ------------------------------------------------------------------ bounds
MaxRepos == 2      \* GitRepository objects in the cluster
MaxArgs == 1       \* positional arguments on the command line

\* --------------------------------------------------------------- universes
NamespaceAll == ""                      \* metav1.NamespaceAll: List over all namespaces
ClusterNamespaces == {"flux-system", "apps"}
FlagNamespaces == ClusterNamespaces \cup {NamespaceAll}
RepoNames == {"podinfo", "webapp"}
SecretNames == {"podinfo-auth"}

NilRef == {}                            \* spec.secretRef == nil
Ref(n) == {[name |-> n]}                \* spec.secretRef == &LocalObjectReference{Name: n}
Deref(p) == CHOOSE r \in p : TRUE

NoErr == [msg |-> "", cause |-> ""]     \* a nil error
Err(m, c) == [msg |-> m, cause |-> c]

\* Go zero values of the fields the exports leave unset.
ZeroStatus == [conditions |-> {}, artifact |-> <<>>]
ZeroMeta == [uid |-> <<>>, resourceVersion |-> "", generation |-> 0,
             finalizers |-> {}, ownerReferences |-> {}]

\* A GitRepository as the API server holds it: every field populated.
GitRepository(ns, n, ref) ==
    [name |-> n, namespace |-> ns,
     labels |-> {<<"app", n>>},
     annotations |-> IF n = "podinfo" THEN {<<"owner", "team-a">>} ELSE {},
     uid |-> <<"uid", ns, n>>, resourceVersion |-> "42", generation |-> 3,
     finalizers |-> {"finalizers.fluxcd.io"}, ownerReferences |-> {"Kustomization/flux-system"},
     spec |-> [url |-> <<"ssh://git@host", n>>, interval |-> "1m", secretRef |-> ref],
     status |-> [conditions |-> {"Ready"}, artifact |-> <<"sha", n>>]]

\* A Secret as the API server holds it.
Secret(ns, n) ==
    [name |-> n, namespace |-> ns,
     labels |-> {<<"managed-by", "flux">>},
     annotations |-> {<<"created-by", ns>>},
     uid |-> <<"uid", ns, n>>, resourceVersion |-> "7",
     data |-> {<<"identity", ns>>, <<"known_hosts", n>>},
     type |-> IF ns = "apps" THEN "kubernetes.io/ssh-auth" ELSE "Opaque"]

RepoUniverse ==
    {GitRepository(ns, n, ref) : ns \in ClusterNamespaces, n \in RepoNames,
                                 ref \in {NilRef} \cup {Ref(s) : s \in SecretNames}}

SecretUniverse == {Secret(ns, n) : ns \in ClusterNamespaces, n \in SecretNames}

Key(o) == <<o.namespace, o.name>>

\* Cluster listings: sequences of repositories with pairwise distinct keys.
RepoLists ==
    {l \in UNION {[1..k -> RepoUniverse] : k \in 0..MaxRepos} :
        \A i, j \in DOMAIN l : i # j => Key(l[i]) # Key(l[j])}

ArgLists == UNION {[1..k -> RepoNames] : k \in 0..MaxArgs}

VARIABLES
    all,          \* exportArgs.all
    withCred,     \* exportSourceWithCred
    args,         \* positional arguments
    namespace,    \* rootArgs.namespace
    repos,        \* cluster: the GitRepository objects, in API list order
    secrets,      \* cluster: the Secret objects
    pc,           \* position in exportSourceGitCmdRun
    list,         \* list.Items
    idx,          \* index of the range loop over list.Items
    repository,   \* the loop variable / the repository fetched by Get
    out,          \* documents printed to stdout, in order
    calls,        \* API calls issued, in order
    log,          \* logger messages
    result        \* the error returned by the run (NoErr for nil), once pc = "done"

vars == <<all, withCred, args, namespace, repos, secrets, pc, list, idx,
          repository, out, calls, log, result>>

inputs == <<all, withCred, args, namespace, repos, secrets>>

\* var repository sourcev1.GitRepository: the zero value
NoRepository ==
    [name |-> "", namespace |-> "", labels |-> {}, annotations |-> {},
     uid |-> <<>>, resourceVersion |-> "", generation |-> 0,
     finalizers |-> {}, ownerReferences |-> {},
     spec |-> [url |-> <<>>, interval |-> "", secretRef |-> NilRef],
     status |-> ZeroStatus]

Init ==
    /\ all \in BOOLEAN
    /\ withCred \in BOOLEAN
    /\ args \in ArgLists
    /\ namespace \in FlagNamespaces
    /\ repos \in RepoLists
    /\ secrets \in SUBSET SecretUniverse
    /\ pc = "start"
    /\ list = <<>>
    /\ idx = 0
    /\ repository = NoRepository
    /\ out = <<>>
    /\ calls = <<>>
    /\ log = <<>>
    /\ result = NoErr

\* ------------------------------------------------------------ cluster API
\* kubeClient.List(ctx, &list, client.InNamespace(ns)): the items of the
\* namespace, in API order; client.InNamespace("") selects every namespace.
\* Any call may also fail (timeout, unauthorized, ...).
ListOutcomes(ns) ==
    {[err |-> "", items |-> SelectSeq(repos, LAMBDA r : ns = NamespaceAll \/ r.namespace = ns)],
     [err |-> "Timeout", items |-> <<>>]}

\* kubeClient.Get(ctx, key, &obj) over the objects `objs` of one kind: the
\* object stored under the key, NotFound when there is none; a Get by name
\* with an empty namespace is rejected by the client.
GetOutcomes(objs, key, zero) ==
    IF key.namespace = NamespaceAll
    THEN {[err |-> "EmptyNamespace", obj |-> zero]}
    ELSE LET found == {o \in objs : o.namespace = key.namespace /\ o.name = key.name}
         IN  (IF found = {} THEN {[err |-> "NotFound", obj |-> zero]}
                            ELSE {[err |-> "", obj |-> o] : o \in found})
             \cup {[err |-> "Timeout", obj |-> zero]}

Range(seq) == {seq[i] : i \in DOMAIN seq}

\* var cred corev1.Secret: the zero value
NoSecret == [name |-> "", namespace |-> "", labels |-> {}, annotations |-> {},
             uid |-> <<>>, resourceVersion |-> "", data |-> {}, type |-> ""]

Call(verb, kind, ns, n, e) ==
    [verb |-> verb, kind |-> kind, namespace |-> ns, name |-> n, err |-> e]

\* --------------------------------------------------------- pure functions
\* mutant: the argument count is compared with 0 instead of 1
nameRequired_ZeroArgs(a, ar) == ~a /\ Len(ar) < 0

\* line 52: the guard of the "name is required" return
nameRequired(a, ar) == ~a /\ Len(ar) < 1

\* mutant: the empty list is not detected
noSourceFound_Never(items) == Len(items) < 0

\* line 71
noSourceFound(items) == Len(items) = 0

\* mutant: the loop stops one item early
rangeHasNext_OffByOne(i, items) == i + 1 < Len(items)

\* line 76: the range loop has a next item after `i` items were visited
rangeHasNext(i, items) == i < Len(items)

\* lines 87-91
repositoryNamespacedName(ns, ar) == [namespace |-> ns, name |-> ar[1]]

\* mutant: the whole object is re-emitted under a new TypeMeta, status and
\* server-side metadata included
exportGit_KeepsServerFields(source) ==
    [kind |-> "GitRepository",
     apiVersion |-> "source.toolkit.fluxcd.io/v1beta1",
     metadata |-> [name |-> source.name,
                   namespace |-> source.namespace,
                   labels |-> source.labels,
                   annotations |-> source.annotations,
                   uid |-> source.uid,
                   resourceVersion |-> source.resourceVersion,
                   generation |-> source.generation,
                   finalizers |-> source.finalizers,
                   ownerReferences |-> source.ownerReferences],
     spec |-> source.spec,
     status |-> source.status]

\* lines 107-121: the object exportGit marshals and prints
exportGit(source) ==
    [kind |-> "GitRepository",
     apiVersion |-> "source.toolkit.fluxcd.io/v1beta1",
     metadata |-> [name |-> source.name,
                   namespace |-> source.namespace,
                   labels |-> source.labels,
                   annotations |-> source.annotations,
                   uid |-> ZeroMeta.uid,
                   resourceVersion |-> ZeroMeta.resourceVersion,
                   generation |-> ZeroMeta.generation,
                   finalizers |-> ZeroMeta.finalizers,
                   ownerReferences |-> ZeroMeta.ownerReferences],
     spec |-> source.spec,
     status |-> ZeroStatus]

\* mutant: the Secret is looked up under the repository's name
secretNamespacedName_RepositoryName(source) ==
    [namespace |-> source.namespace, name |-> source.name]

\* mutant: the Secret is looked up in the default namespace
secretNamespacedName_DefaultNamespace(source) ==
    [namespace |-> "flux-system", name |-> Deref(source.spec.secretRef).name]

\* lines 135-138
secretNamespacedName(source) ==
    [namespace |-> source.namespace, name |-> Deref(source.spec.secretRef).name]

\* mutant: the type of the Secret is not copied
exportedSecret_NoType(namespacedName, cred) ==
    [kind |-> "Secret",
     apiVersion |-> "v1",
     metadata |-> [name |-> namespacedName.name,
                   namespace |-> namespacedName.namespace,
                   labels |-> {},
                   annotations |-> {},
                   uid |-> ZeroMeta.uid,
                   resourceVersion |-> ZeroMeta.resourceVersion,
                   generation |-> ZeroMeta.generation,
                   finalizers |-> ZeroMeta.finalizers,
                   ownerReferences |-> ZeroMeta.ownerReferences],
     data |-> cred.data,
     type |-> ""]

\* lines 145-156: the object exportGitCredentials marshals and prints
exportedSecret(namespacedName, cred) ==
    [kind |-> "Secret",
     apiVersion |-> "v1",
     metadata |-> [name |-> namespacedName.name,
                   namespace |-> namespacedName.namespace,
                   labels |-> {},
                   annotations |-> {},
                   uid |-> ZeroMeta.uid,
                   resourceVersion |-> ZeroMeta.resourceVersion,
                   generation |-> ZeroMeta.generation,
                   finalizers |-> ZeroMeta.finalizers,
                   ownerReferences |-> ZeroMeta.ownerReferences],
     data |-> cred.data,
     type |-> cred.type]

\* The effects of exportGitCredentials(source) when `onFailure` decides what a
\* failed Get leads to (for the mutants below).
CredentialsEffects(source, onFailure(_, _)) ==
    IF source.spec.secretRef # NilRef
    THEN LET namespacedName == secretNamespacedName(source)
         IN  {IF o.err # "" THEN onFailure(namespacedName, o.err)
              ELSE [calls |-> <<Call("Get", "Secret", namespacedName.namespace,
                                     namespacedName.name, "")>>,
                    docs  |-> <<exportedSecret(namespacedName, o.obj)>>,
                    err   |-> NoErr]
              : o \in GetOutcomes(secrets, namespacedName, NoSecret)}
    ELSE {[calls |-> <<>>, docs |-> <<>>, err |-> NoErr]}

\* mutant: a failed Get is issued a second time before giving up
exportGitCredentials_Retry(source) ==
    CredentialsEffects(source, LAMBDA nn, e :
        [calls |-> <<Call("Get", "Secret", nn.namespace, nn.name, e),
                     Call("Get", "Secret", nn.namespace, nn.name, e)>>,
         docs  |-> <<>>,
         err   |-> Err("failed to retrieve secret", e)])

\* mutant: a failed Get is not reported
exportGitCredentials_SwallowsError(source) ==
    CredentialsEffects(source, LAMBDA nn, e :
        [calls |-> <<Call("Get", "Secret", nn.namespace, nn.name, e)>>,
         docs  |-> <<>>,
         err   |-> NoErr])

\* mutant: the (empty) Secret is printed before the error is returned
exportGitCredentials_PrintsOnError(source) ==
    CredentialsEffects(source, LAMBDA nn, e :
        [calls |-> <<Call("Get", "Secret", nn.namespace, nn.name, e)>>,
         docs  |-> <<exportedSecret(nn, NoSecret)>>,
         err   |-> Err("failed to retrieve secret", e)])

\* lines 133-167: the possible effects of exportGitCredentials(source), one
\* per answer of the API: the calls issued, the documents printed and the
\* error returned.
exportGitCredentials(source) ==
    IF source.spec.secretRef # NilRef
    THEN LET namespacedName == secretNamespacedName(source)
         IN  {[calls |-> <<Call("Get", "Secret", namespacedName.namespace,
                                namespacedName.name, o.err)>>,
               docs  |-> IF o.err # "" THEN <<>>
                         ELSE <<exportedSecret(namespacedName, o.obj)>>,
               err   |-> IF o.err # ""
                         THEN Err("failed to retrieve secret", o.err)
                         ELSE NoErr]
              : o \in GetOutcomes(secrets, namespacedName, NoSecret)}
    ELSE {[calls |-> <<>>, docs |-> <<>>, err |-> NoErr]}

\* ----------------------------------------------------------------- actions
Return(e) ==
    /\ result' = e
    /\ pc' = "done"

\* lines 52-54
CheckArgs ==
    /\ pc = "start"
    /\ IF nameRequired(all, args)
       THEN Return(Err("name is required", ""))
       ELSE pc' = "client" /\ UNCHANGED result
    /\ UNCHANGED <<inputs, list, idx, repository, out, calls, log>>

\* lines 59-62, utils.KubeClient succeeds; line 64 picks the branch
KubeClientOk ==
    /\ pc = "client"
    /\ pc' = IF all THEN "list" ELSE "get"
    /\ UNCHANGED <<inputs, list, idx, repository, out, calls, log, result>>

\* lines 59-62, utils.KubeClient fails
KubeClientFail ==
    /\ pc = "client"
    /\ Return(Err("kubeclient", ""))
    /\ UNCHANGED <<inputs, list, idx, repository, out, calls, log>>

\* lines 65-74
ListRepositories ==
    /\ pc = "list"
    /\ \E o \in ListOutcomes(namespace) :
        /\ calls' = Append(calls, Call("List", "GitRepository", namespace, "", o.err))
        /\ IF o.err # ""
           THEN /\ Return(Err(o.err, ""))
                /\ UNCHANGED <<list, log>>
           ELSE /\ list' = o.items
                /\ IF noSourceFound(o.items)
                   THEN /\ log' = Append(log, <<"failure", "no source found", namespace>>)
                        /\ Return(NoErr)
                   ELSE /\ pc' = "range"
                        /\ UNCHANGED <<log, result>>
    /\ idx' = 0
    /\ UNCHANGED <<inputs, repository, out>>

\* line 76: next iteration of the range loop, or line 104 after the last
RangeNext ==
    /\ pc = "range"
    /\ IF rangeHasNext(idx, list)
       THEN /\ idx' = idx + 1
            /\ repository' = list[idx + 1]
            /\ pc' = "loopGit"
            /\ UNCHANGED result
       ELSE /\ Return(NoErr)
            /\ UNCHANGED <<idx, repository>>
    /\ UNCHANGED <<inputs, list, out, calls, log>>

\* lines 77-80
LoopExportGit ==
    /\ pc = "loopGit"
    /\ out' = Append(out, exportGit(repository))
    /\ pc' = IF withCred THEN "loopCred" ELSE "range"
    /\ UNCHANGED <<inputs, list, idx, repository, calls, log, result>>

\* lines 81-83
LoopExportGitCredentials ==
    /\ pc = "loopCred"
    /\ \E e \in exportGitCredentials(repository) :
        /\ calls' = calls \o e.calls
        /\ out' = out \o e.docs
        /\ IF e.err # NoErr
           THEN Return(e.err)
           ELSE pc' = "range" /\ UNCHANGED result
    /\ UNCHANGED <<inputs, list, idx, repository, log>>

\* lines 87-96
GetRepository ==
    /\ pc = "get"
    /\ LET namespacedName == repositoryNamespacedName(namespace, args)
       IN  \E o \in GetOutcomes(Range(repos), namespacedName, NoRepository) :
            /\ calls' = Append(calls, Call("Get", "GitRepository", namespacedName.namespace,
                                           namespacedName.name, o.err))
            /\ IF o.err # ""
               THEN Return(Err(o.err, "")) /\ UNCHANGED repository
               ELSE repository' = o.obj /\ pc' = "exportGit" /\ UNCHANGED result
    /\ UNCHANGED <<inputs, list, idx, out, log>>

\* lines 97-100, and line 104 without --with-credentials
ExportGit ==
    /\ pc = "exportGit"
    /\ out' = Append(out, exportGit(repository))
    /\ IF withCred
       THEN pc' = "exportCred" /\ UNCHANGED result
       ELSE Return(NoErr)
    /\ UNCHANGED <<inputs, list, idx, repository, calls, log>>

\* line 101
ExportGitCredentials ==
    /\ pc = "exportCred"
    /\ \E e \in exportGitCredentials(repository) :
        /\ calls' = calls \o e.calls
        /\ out' = out \o e.docs
        /\ Return(e.err)
    /\ UNCHANGED <<inputs, list, idx, repository, log>>

Next ==
    \/ CheckArgs
    \/ KubeClientOk
    \/ KubeClientFail
    \/ ListRepositories
    \/ RangeNext
    \/ LoopExportGit
    \/ LoopExportGitCredentials
    \/ GetRepository
    \/ ExportGit
    \/ ExportGitCredentials

Spec == Init /\ [][Next]_vars

TypeOK ==
    /\ pc \in {"start", "client", "list", "range", "loopGit", "loopCred",
               "get", "exportGit", "exportCred", "done"}
    /\ idx \in 0..Len(list)
    /\ Len(out) <= 2 * Len(repos)

\* ------------------------------------------------- vocabulary of the claims
Done == pc = "done"
Succeeded == Done /\ result = NoErr

IsGit(d) == d.kind = "GitRepository"
IsSecret(d) == d.kind = "Secret"
GitDocs == SelectSeq(out, IsGit)
SecretDocs == SelectSeq(out, IsSecret)
GitCalls == SelectSeq(calls, LAMBDA c : c.kind = "GitRepository")
SecretCalls == SelectSeq(calls, LAMBDA c : c.kind = "Secret")
AllCallsOk == \A i \in DOMAIN calls : calls[i].err = ""
HasRef(d) == d.spec.secretRef # NilRef

\* What the cluster holds for a List of the selected namespace.
SelectedItems == SelectSeq(repos, LAMBDA r : namespace = NamespaceAll \/ r.namespace = namespace)

\* All metadata other than name, namespace, labels and annotations is unset.
OtherMetadataAbsent(d) ==
    /\ d.metadata.uid = <<>>
    /\ d.metadata.resourceVersion = ""
    /\ d.metadata.generation = 0
    /\ d.metadata.finalizers = {}
    /\ d.metadata.ownerReferences = {}

DocId(d) == <<d.kind, d.metadata.namespace, d.metadata.name>>
Ids(docs) == [i \in DOMAIN docs |-> DocId(docs[i])]

\* The identities of the documents of a run over `items` in which every
\* call succeeds: per item its GitRepository, then its Secret when
\* credentials are exported and it references one.
RECURSIVE ExpectedIds(_, _)
ExpectedIds(items, cred) ==
    IF items = <<>> THEN <<>>
    ELSE LET r == Head(items)
         IN  <<(<<"GitRepository", r.namespace, r.name>>)>>
             \o (IF cred /\ r.spec.secretRef # NilRef
                 THEN <<(<<"Secret", r.namespace, Deref(r.spec.secretRef).name>>)>>
                 ELSE <<>>)
             \o ExpectedIds(Tail(items), cred)

IsPrefix(s, t) == Len(s) <= Len(t) /\ SubSeq(t, 1, Len(s)) = s

\* ------------------------------------------------------------------ claims

\* C1: every document exportGit emits has kind GitRepository and the source
\* API group/version; its name, namespace, labels, annotations and spec are
\* those of the repository it was given, and status and all other object
\* metadata are absent.  Right after exportGit ran, the last document is the
\* export of `repository`; every GitRepository document of the output is the
\* export of a repository of the cluster.
IsExportOf(d, source) ==
    /\ d.kind = "GitRepository"
    /\ d.apiVersion = "source.toolkit.fluxcd.io/v1beta1"
    /\ d.metadata.name = source.name
    /\ d.metadata.namespace = source.namespace
    /\ d.metadata.labels = source.labels
    /\ d.metadata.annotations = source.annotations
    /\ d.spec = source.spec
    /\ d.status = ZeroStatus
    /\ OtherMetadataAbsent(d)

C1_ExportGitCopies ==
    /\ pc \in {"loopCred", "exportCred"} =>
          /\ out # <<>>
          /\ IsExportOf(out[Len(out)], repository)
    /\ \A i \in DOMAIN out :
          IsGit(out[i]) => \E source \in Range(repos) : IsExportOf(out[i], source)

C1_Witness ==
    /\ Done
    /\ \E i \in DOMAIN out :
          /\ IsGit(out[i])
          /\ out[i].metadata.annotations # {}
          /\ HasRef(out[i])

\* C2: in a successful run a Secret document is emitted for a repository
\* iff --with-credentials is set and its spec.secretRef is non-nil; it
\* directly follows that repository's document and carries the secretRef
\* name and the repository's namespace.  The Secret Gets issued are exactly
\* those of the referencing repositories exported so far, by secretRef name
\* in the repository's namespace; none is issued without the flag.
C2_SecretIffCredentials ==
    /\ Succeeded =>
          \A i \in DOMAIN out :
             /\ IsSecret(out[i]) =>
                   /\ withCred
                   /\ i > 1
                   /\ IsGit(out[i - 1])
                   /\ HasRef(out[i - 1])
                   /\ out[i].metadata.name = Deref(out[i - 1].spec.secretRef).name
                   /\ out[i].metadata.namespace = out[i - 1].metadata.namespace
             /\ (IsGit(out[i]) /\ withCred /\ HasRef(out[i])) =>
                   /\ i < Len(out)
                   /\ IsSecret(out[i + 1])
    /\ ~withCred => SecretCalls = <<>>
    /\ Done =>
          LET refs == SelectSeq(GitDocs, HasRef)
          IN  /\ Len(SecretCalls) = IF withCred THEN Len(refs) ELSE 0
              /\ \A j \in DOMAIN SecretCalls :
                    /\ SecretCalls[j].verb = "Get"
                    /\ SecretCalls[j].name = Deref(refs[j].spec.secretRef).name
                    /\ SecretCalls[j].namespace = refs[j].metadata.namespace

C2_Witness ==
    /\ Succeeded
    /\ withCred
    /\ Len(out) = 3
    /\ IsGit(out[1]) /\ ~HasRef(out[1])
    /\ IsGit(out[2]) /\ IsSecret(out[3])

\* C3 as stated: every exported Secret has the labels, annotations, data and
\* type of the Secret the API returned.
C3_SecretCopiesLabels ==
    \A i \in DOMAIN out :
       IsSecret(out[i]) =>
          \E cred \in secrets :
             /\ cred.namespace = out[i].metadata.namespace
             /\ cred.name = out[i].metadata.name
             /\ out[i].metadata.labels = cred.labels
             /\ out[i].metadata.annotations = cred.annotations
             /\ out[i].data = cred.data
             /\ out[i].type = cred.type

\* C3 amended: every exported Secret has kind Secret and apiVersion v1, the
\* data and type of the Secret the API returned for its name and namespace,
\* and no labels, annotations or other object metadata.
C3_SecretCopiesDataAndType ==
    \A i \in DOMAIN out :
       IsSecret(out[i]) =>
          /\ out[i].apiVersion = "v1"
          /\ out[i].metadata.labels = {}
          /\ out[i].metadata.annotations = {}
          /\ OtherMetadataAbsent(out[i])
          /\ \E cred \in secrets :
                /\ cred.namespace = out[i].metadata.namespace
                /\ cred.name = out[i].metadata.name
                /\ out[i].data = cred.data
                /\ out[i].type = cred.type

C3_Witness ==
    /\ Done
    /\ \E i \in DOMAIN out :
          /\ IsSecret(out[i])
          /\ out[i].type = "kubernetes.io/ssh-auth"
          /\ \E cred \in secrets : Key(cred) = <<out[i].metadata.namespace, out[i].metadata.name>>
                                   /\ cred.labels # {}

\* C4: with --all and every call succeeding, the GitRepository documents are
\* those of the items the List of the selected namespace returns, one each,
\* in list order, and a name argument is ignored (no Get of a GitRepository);
\* without --all the first call is the one Get of args[0] in the selected
\* namespace, and when it succeeds exactly one GitRepository document is
\* emitted, the one of that name.
C4_OneDocumentPerItem ==
    /\ (Done /\ all /\ calls # <<>> /\ AllCallsOk) =>
          /\ calls[1] = Call("List", "GitRepository", namespace, "", "")
          /\ Len(GitCalls) = 1
          /\ list = SelectedItems
          /\ Len(GitDocs) = Len(SelectedItems)
          /\ \A i \in DOMAIN GitDocs :
                /\ GitDocs[i].metadata.name = SelectedItems[i].name
                /\ GitDocs[i].metadata.namespace = SelectedItems[i].namespace
    /\ (Done /\ ~all /\ calls # <<>>) =>
          /\ Len(GitCalls) = 1
          /\ calls[1].verb = "Get" /\ calls[1].kind = "GitRepository"
          /\ calls[1].name = args[1] /\ calls[1].namespace = namespace
          /\ calls[1].err = "" =>
                /\ Len(GitDocs) = 1
                /\ IsGit(out[1])
                /\ out[1].metadata.name = args[1]

C4_Witness ==
    /\ Done /\ all /\ AllCallsOk
    /\ args # <<>>
    /\ Len(list) >= 2
    /\ Len(GitDocs) = Len(list)

\* C5: without --all and without a name the run returns "name is required"
\* straight from the argument check: the client is never built, no call is
\* issued and no document is emitted.
C5_NameRequired ==
    (~all /\ Len(args) < 1) =>
       /\ pc \in {"start", "done"}
       /\ calls = <<>>
       /\ out = <<>>
       /\ Done => result = Err("name is required", "")

C5_Witness ==
    /\ ~all /\ args = <<>>
    /\ Done
    /\ result = Err("name is required", "")

\* C6 as stated: one run issues at most one List/Get call.
C6_AtMostOneCall == Len(calls) <= 1

\* C6 amended: one run issues at most one List/Get of GitRepositories, and
\* it is the first call; every further call is the Get of a Secret, at most
\* one per GitRepository document emitted, and only with --with-credentials.
C6_OneRepositoryCall ==
    /\ Len(GitCalls) <= 1
    /\ calls # <<>> => calls[1].kind = "GitRepository"
    /\ \A i \in DOMAIN calls : i > 1 => (calls[i].kind = "Secret" /\ calls[i].verb = "Get")
    /\ Len(SecretCalls) <= Len(GitDocs)
    /\ ~withCred => Len(calls) <= 1

C6_Witness ==
    /\ Done
    /\ Len(calls) = 3
    /\ Len(GitCalls) = 1
    /\ Len(SecretCalls) = 2

\* C7: a failed API call is the last call of the run and ends it with an
\* error: nothing is enabled afterwards, so no call is re-issued or added
\* and no document follows.  Conversely a run returns an error only for a
\* missing name, a client that cannot be built, or a failed API call, whose
\* error it carries.
C7_FailureEndsRun ==
    /\ \A i \in DOMAIN calls :
          calls[i].err # "" =>
             /\ i = Len(calls)
             /\ Done
             /\ result # NoErr
             /\ ~ENABLED Next
    /\ (Done /\ result # NoErr) =>
          \/ result = Err("name is required", "") /\ ~all /\ Len(args) < 1 /\ calls = <<>>
          \/ result = Err("kubeclient", "") /\ calls = <<>>
          \/ /\ calls # <<>>
             /\ calls[Len(calls)].err # ""
             /\ result = IF calls[Len(calls)].kind = "Secret"
                         THEN Err("failed to retrieve secret", calls[Len(calls)].err)
                         ELSE Err(calls[Len(calls)].err, "")

C7_Witness ==
    /\ Done
    /\ Len(calls) = 2
    /\ calls[1].err = ""
    /\ calls[2].err = "NotFound"
    /\ result = Err("failed to retrieve secret", "NotFound")

\* C8: with --all, once the List has succeeded with no GitRepository in the
\* selected namespace, the run is over: no document, no further call, a nil
\* error, and the 'no source found' failure in the log.
C8_EmptyListSucceeds ==
    (all /\ calls # <<>> /\ calls[1].err = "" /\ SelectedItems = <<>>) =>
       /\ Done
       /\ result = NoErr
       /\ out = <<>>
       /\ Len(calls) = 1
       /\ log = <<(<<"failure", "no source found", namespace>>)>>

C8_Witness ==
    /\ all /\ Done
    /\ repos # <<>>
    /\ SelectedItems = <<>>
    /\ calls # <<>> /\ calls[1].err = ""
    /\ log # <<>>

\* C9: with --all and --with-credentials, when the Get of the Secret of the
\* k-th listed repository fails, the output is the documents of the first
\* k-1 repositories (each with its Secret where one applies) followed by the
\* GitRepository document of the k-th: a prefix of the output of the run in
\* which every call succeeds, already emitted when the error is returned.
C9_PartialOutputIsPrefix ==
    (all /\ calls # <<>> /\ calls[Len(calls)].kind = "Secret" /\ calls[Len(calls)].err # "") =>
       LET k == Len(GitDocs)
       IN  /\ Done /\ result # NoErr
           /\ withCred
           /\ k >= 1 /\ k <= Len(SelectedItems)
           /\ SelectedItems[k].spec.secretRef # NilRef
           /\ calls[Len(calls)].name = Deref(SelectedItems[k].spec.secretRef).name
           /\ calls[Len(calls)].namespace = SelectedItems[k].namespace
           /\ Ids(out) = ExpectedIds(SubSeq(SelectedItems, 1, k - 1), TRUE)
                         \o <<(<<"GitRepository", SelectedItems[k].namespace, SelectedItems[k].name>>)>>
           /\ IsPrefix(Ids(out), ExpectedIds(SelectedItems, TRUE))
           /\ Len(out) < Len(ExpectedIds(SelectedItems, TRUE))

C9_Witness ==
    /\ all /\ withCred /\ Done
    /\ Len(out) = 3
    /\ IsGit(out[1]) /\ IsSecret(out[2]) /\ IsGit(out[3])
    /\ Len(calls) = 3
    /\ calls[3].kind = "Secret" /\ calls[3].err # ""

\* C10 as stated: every API call and every emitted document carries the
\* namespace selected by -n/--namespace.
C10_EverythingInSelectedNamespace ==
    /\ \A i \in DOMAIN calls : calls[i].namespace = namespace
    /\ \A i \in DOMAIN out : out[i].metadata.namespace = namespace

\* C10 amended: the List/Get of GitRepositories carries the selected
\* namespace; every Secret is read from, and exported with, the namespace of
\* the GitRepository that references it and the secretRef name; and when the
\* selected namespace is not empty every call and every document carries it.
\* (With an empty namespace --all lists every namespace and each document
\* carries the namespace of its own repository.)
C10_SecretInRepositoryNamespace ==
    /\ \A i \in DOMAIN calls :
          calls[i].kind = "GitRepository" => calls[i].namespace = namespace
    /\ LET refs == SelectSeq(GitDocs, HasRef)
       IN  /\ Len(SecretCalls) <= Len(refs)
           /\ \A j \in DOMAIN SecretCalls :
                 /\ SecretCalls[j].namespace = refs[j].metadata.namespace
                 /\ SecretCalls[j].name = Deref(refs[j].spec.secretRef).name
    /\ \A i \in DOMAIN out :
          IsSecret(out[i]) =>
             /\ i > 1
             /\ IsGit(out[i - 1])
             /\ out[i].metadata.namespace = out[i - 1].metadata.namespace
             /\ out[i].metadata.name = Deref(out[i - 1].spec.secretRef).name
    /\ namespace # NamespaceAll => C10_EverythingInSelectedNamespace

C10_Witness ==
    /\ Done
    /\ namespace = NamespaceAll
    /\ Len(out) = 4
    /\ IsSecret(out[2]) /\ IsSecret(out[4])
    /\ out[2].metadata.namespace # out[4].metadata.namespace

====
